---- MODULE Spec2Model ----
(***************************************************************************)
(* Model of pkg/config/policies.go: the translation of stored channel      *)
(* policies (implicit-meta and signature policies) to their textual rule   *)
(* form, and the add/remove/get operations on the policy maps of the       *)
(* groups of a channel config tree.                                        *)
(***************************************************************************)
EXTENDS Integers, Sequences, FiniteSets, TLC

VARIABLES
    config,   \* the cb.Config tree handed to every exported function
    ret,      \* the last call and what it returned: [op, target, args, err, val]
    view,     \* the last map[string]Policy a getter returned to the caller
    fin,      \* input of the formatter: a SignaturePolicyEnvelope
    fout,     \* output of the formatter: [fn, text, err]
    budget    \* number of calls the caller still makes on the config

vars == <<config, ret, view, fin, fout, budget>>

-----------------------------------------------------------------------------
(* Bounds *)

MaxRules == 3    \* children of the top NOutOf node
MaxInner == 2    \* children (and largest threshold) of a nested NOutOf node
MaxN     == 3    \* threshold N of the top NOutOf node
MaxIdx   == 1    \* largest SignedBy index of a leaf

-----------------------------------------------------------------------------
(* Go values: an error is modelled by its message, a nil error by NoErr, *)
(* and a run-time panic (nil dereference, index out of range) by Panic.   *)

NoErr == "<nil>"
Panic == "panic: runtime error"

IsError(e) == e # NoErr /\ e # Panic

\* maps: a function from its keys; a nil pointer or nil map is Nil
Nil == [nil |-> TRUE]
EmptyMap == <<>>
Put(m, k, v) == [x \in DOMAIN m \cup {k} |-> IF x = k THEN v ELSE m[x]]
Delete(m, k) == [x \in DOMAIN m \ {k} |-> m[x]]

-----------------------------------------------------------------------------
(* strings package *)

UpperOf == [c \in {"a", "d", "f", "n", "o", "r", "t", "u"} |->
              CASE c = "a" -> "A" [] c = "d" -> "D" [] c = "f" -> "F"
                [] c = "n" -> "N" [] c = "o" -> "O" [] c = "r" -> "R"
                [] c = "t" -> "T" [] c = "u" -> "U"]

LowerOf == [c \in {"A", "B", "C", "D", "E", "I", "L", "M", "N", "O", "P", "R", "T"} |->
              CASE c = "A" -> "a" [] c = "B" -> "b" [] c = "C" -> "c"
                [] c = "D" -> "d" [] c = "E" -> "e" [] c = "I" -> "i"
                [] c = "L" -> "l" [] c = "M" -> "m" [] c = "N" -> "n"
                [] c = "O" -> "o" [] c = "P" -> "p" [] c = "R" -> "r"
                [] c = "T" -> "t"]

RECURSIVE ToUpper(_)
ToUpper(s) ==
    IF s = "" THEN ""
    ELSE LET c == Head(s)
         IN (IF c \in DOMAIN UpperOf THEN UpperOf[c] ELSE c) \o ToUpper(Tail(s))

RECURSIVE ToLower(_)
ToLower(s) ==
    IF s = "" THEN ""
    ELSE LET c == Head(s)
         IN (IF c \in DOMAIN LowerOf THEN LowerOf[c] ELSE c) \o ToLower(Tail(s))

RECURSIVE Join(_, _)
Join(elems, sep) ==
    IF Len(elems) = 0 THEN ""
    ELSE IF Len(elems) = 1 THEN elems[1]
    ELSE elems[1] \o sep \o Join(Tail(elems), sep)

HasPrefix(s, prefix) ==
    Len(s) >= Len(prefix) /\ SubSeq(s, 1, Len(prefix)) = prefix

Itoa(n) == ToString(n)

\* strings.Index, 1-based; 0 when sep does not occur
Index(s, sep) ==
    LET hits == {i \in 1..(Len(s) - Len(sep) + 1) : SubSeq(s, i, i + Len(sep) - 1) = sep}
    IN IF hits = {} THEN 0 ELSE CHOOSE i \in hits : \A j \in hits : i <= j

LastIndex(s, sep) ==
    LET hits == {i \in 1..(Len(s) - Len(sep) + 1) : SubSeq(s, i, i + Len(sep) - 1) = sep}
    IN IF hits = {} THEN 0 ELSE CHOOSE i \in hits : \A j \in hits : i >= j

RECURSIVE Split(_, _)
Split(s, sep) ==
    LET i == Index(s, sep)
    IN IF i = 0 THEN <<s>>
       ELSE <<SubSeq(s, 1, i - 1)>> \o Split(SubSeq(s, i + Len(sep), Len(s)), sep)

DigitOf == [c \in {"0", "1", "2", "3", "4", "5", "6", "7", "8", "9"} |->
              CASE c = "0" -> 0 [] c = "1" -> 1 [] c = "2" -> 2 [] c = "3" -> 3
                [] c = "4" -> 4 [] c = "5" -> 5 [] c = "6" -> 6 [] c = "7" -> 7
                [] c = "8" -> 8 [] c = "9" -> 9]

IsNumber(s) == Len(s) > 0 /\ \A i \in 1..Len(s) : SubSeq(s, i, i) \in DOMAIN DigitOf

RECURSIVE Atoi(_)
Atoi(s) ==
    IF s = "" THEN 0
    ELSE 10 * Atoi(SubSeq(s, 1, Len(s) - 1)) + DigitOf[SubSeq(s, Len(s), Len(s))]

-----------------------------------------------------------------------------
(* policydsl gate names *)

GateAnd   == "And"
GateOr    == "Or"
GateOutOf == "OutOf"

-----------------------------------------------------------------------------
(* proto.Marshal / proto.Unmarshal: the encoding keeps the message and the *)
(* message type it was encoded from; decoding into another type fails.     *)

Marshal(kind, msg) == [wire |-> kind, body |-> msg]

Unmarshal(bytes, kind) ==
    IF bytes.wire = kind
    THEN [msg |-> bytes.body, err |-> NoErr]
    ELSE [msg |-> bytes.body, err |-> "proto: cannot parse invalid wire-format data"]

-----------------------------------------------------------------------------
(* Signature policies *)

SignedBy(i) == [Type |-> "SignedBy", Index |-> i]
NOutOf(n, rules) == [Type |-> "NOutOf", N |-> n, Rules |-> rules]
NoType == [Type |-> "nil"]

MSPRole(mspID, role) == [MspIdentifier |-> mspID, Role |-> role]

RolePrincipal(mspID, role) ==
    [PrincipalClassification |-> "ROLE",
     Principal |-> Marshal("MSPRole", MSPRole(mspID, role))]

OtherPrincipal(class) ==
    [PrincipalClassification |-> class, Principal |-> Marshal("bytes", "")]

\* mspPrincipalToString without strings.ToLower: the role keeps the case of
\* the enum name
mspPrincipalToString_NoLower(principal) ==
    IF principal.PrincipalClassification = "ROLE"
    THEN [text |-> "'" \o principal.Principal.body.MspIdentifier \o "."
                       \o principal.Principal.body.Role \o "'",
          err |-> NoErr]
    ELSE [text |-> "", err |-> NoErr]

mspPrincipalToString(principal) ==
    CASE principal.PrincipalClassification = "ROLE" ->
            LET dec == Unmarshal(principal.Principal, "MSPRole")
                role == dec.msg
            IN IF dec.err # NoErr
               THEN [text |-> "", err |-> dec.err]
               ELSE [text |-> "'" \o role.MspIdentifier \o "." \o ToLower(role.Role) \o "'",
                     err |-> NoErr]
      [] principal.PrincipalClassification \in
            {"ORGANIZATION_UNIT", "IDENTITY", "ANONYMITY", "COMBINED"} ->
            [text |-> "", err |-> NoErr]
      [] OTHER ->
            [text |-> "", err |-> "unknown MSP principal classiciation"]

\* gateOf without the test of N against the number of rules
gateOf_NoAnd(n, numRules) ==
    IF n = 1 THEN GateOr ELSE GateOutOf

\* the gate of an NOutOf node: OutOf, replaced by Or when N is 1, and then
\* replaced by And when N is the number of rules
gateOf(n, numRules) ==
    LET gate0 == GateOutOf
        gate1 == IF n = 1 THEN GateOr ELSE gate0
    IN IF n = numRules THEN GateAnd ELSE gate1

RECURSIVE signaturePolicyToString(_, _)
signaturePolicyToString(sig, IDs) ==
    CASE sig.Type = "NOutOf" ->
            LET gate == gateOf(sig.N, Len(sig.Rules))
                first == IF gate = GateOutOf THEN <<Itoa(sig.N)>> ELSE <<>>
                sub == [i \in 1..Len(sig.Rules) |-> signaturePolicyToString(sig.Rules[i], IDs)]
                bad == {i \in 1..Len(sig.Rules) : sub[i].err # NoErr}
                stop == CHOOSE i \in bad : \A j \in bad : i <= j
                policies == first \o [i \in 1..Len(sig.Rules) |-> sub[i].text]
            IN IF bad # {}
               THEN [text |-> "", err |-> sub[stop].err]
               ELSE [text |-> ToUpper(gate) \o "(" \o Join(policies, ", ") \o ")",
                     err |-> NoErr]
      [] sig.Type = "SignedBy" ->
            IF sig.Index + 1 \in 1..Len(IDs)
            THEN [text |-> IDs[sig.Index + 1], err |-> NoErr]
            ELSE [text |-> "", err |-> Panic]
      [] OTHER ->
            [text |-> "", err |-> "unknown signature policy type"]

signatureMetaToString(sig) ==
    LET conv == [i \in 1..Len(sig.Identities) |-> mspPrincipalToString(sig.Identities[i])]
        bad == {i \in 1..Len(sig.Identities) : conv[i].err # NoErr}
        stop == CHOOSE i \in bad : \A j \in bad : i <= j
        roles == [i \in 1..Len(sig.Identities) |-> conv[i].text]
    IN IF bad # {}
       THEN [text |-> "", err |-> conv[stop].err]
       ELSE signaturePolicyToString(sig.Rule, roles)

-----------------------------------------------------------------------------
(* Implicit meta policies *)

ImplicitMetaRules == {"ANY", "ALL", "MAJORITY"}

implicitMetaToString(imp) ==
    IF imp.Rule \in ImplicitMetaRules
    THEN [text |-> imp.Rule \o " " \o imp.SubPolicy, err |-> NoErr]
    ELSE [text |-> "", err |-> "unknown implicit meta policy rule type " \o imp.Rule]

\* the rule is two space separated tokens: the quantifier and the sub policy
implicitMetaFromString(input) ==
    LET args == Split(input, " ")
    IN IF Len(args) # 2
       THEN [msg |-> Nil,
             err |-> "expected two space separated tokens, but got " \o Itoa(Len(args))]
       ELSE IF args[1] \notin ImplicitMetaRules
       THEN [msg |-> Nil,
             err |-> "unknown rule type '" \o args[1] \o "', expected ALL, ANY, or MAJORITY"]
       ELSE [msg |-> [Rule |-> args[1], SubPolicy |-> args[2]], err |-> NoErr]

-----------------------------------------------------------------------------
(* policydsl.FromString, for rules GATE(arg, ..., arg) over role principals: *)
(* AND is len-out-of, OR is 1-out-of, OUTOF takes the threshold as its first *)
(* argument; the i-th principal becomes identity i - 1, signed by leaf i - 1 *)

RoleNames == {"member", "admin", "client", "peer", "orderer"}

RoleOf == [r \in RoleNames |->
             CASE r = "member" -> "MEMBER" [] r = "admin" -> "ADMIN"
               [] r = "client" -> "CLIENT" [] r = "peer" -> "PEER"
               [] r = "orderer" -> "ORDERER"]

\* 'MSPID.role'
IsPrincipalText(t) ==
    /\ Len(t) >= 5
    /\ SubSeq(t, 1, 1) = "'"
    /\ SubSeq(t, Len(t), Len(t)) = "'"
    /\ LET inner == SubSeq(t, 2, Len(t) - 1)
           dot == LastIndex(inner, ".")
       IN /\ dot > 1
          /\ SubSeq(inner, dot + 1, Len(inner)) \in RoleNames
          /\ Index(SubSeq(inner, 1, dot - 1), "'") = 0

PrincipalFromText(t) ==
    LET inner == SubSeq(t, 2, Len(t) - 1)
        dot == LastIndex(inner, ".")
    IN RolePrincipal(SubSeq(inner, 1, dot - 1), RoleOf[SubSeq(inner, dot + 1, Len(inner))])

FromString(policy) ==
    LET open == Index(policy, "(")
        gate == SubSeq(policy, 1, open - 1)
        args == Split(SubSeq(policy, open + 1, Len(policy) - 1), ", ")
        isOutOf == gate = "OUTOF"
        ids == IF isOutOf THEN Tail(args) ELSE args
        n == CASE gate = "AND" -> Len(ids)
               [] gate = "OR" -> 1
               [] OTHER -> Atoi(args[1])
        wellFormed ==
            /\ open > 1
            /\ SubSeq(policy, Len(policy), Len(policy)) = ")"
            /\ gate \in {"AND", "OR", "OUTOF"}
            /\ isOutOf => (Len(args) >= 2 /\ IsNumber(args[1]))
            /\ \A i \in 1..Len(ids) : IsPrincipalText(ids[i])
    IN IF ~wellFormed
       THEN [msg |-> Nil, err |-> "unrecognized token in policy string"]
       ELSE [msg |-> [Rule |-> NOutOf(n, [i \in 1..Len(ids) |-> SignedBy(i - 1)]),
                      Identities |-> [i \in 1..Len(ids) |-> PrincipalFromText(ids[i])]],
             err |-> NoErr]

-----------------------------------------------------------------------------
(* Keys and policy types *)

ConsortiumsGroupKey == "Consortiums"
OrdererGroupKey == "Orderer"
ApplicationGroupKey == "Application"

AdminsPolicyKey == "Admins"
ReadersPolicyKey == "Readers"
WritersPolicyKey == "Writers"
BlockValidationPolicyKey == "BlockValidation"

ImplicitMetaPolicyType == "ImplicitMeta"
SignaturePolicyType == "Signature"

Policy_IMPLICIT_META == "IMPLICIT_META"
Policy_SIGNATURE == "SIGNATURE"

-----------------------------------------------------------------------------
(* The config tree.  A group is [Groups, Policies]; a *cb.ConfigGroup is   *)
(* the path of the group from the channel group, or nil.                   *)

RECURSIVE GroupAt(_, _)
GroupAt(g, path) ==
    IF path = <<>> THEN g ELSE GroupAt(g.Groups[Head(path)], Tail(path))

RECURSIVE WithPolicies(_, _, _)
WithPolicies(g, path, policies) ==
    IF path = <<>>
    THEN [g EXCEPT !.Policies = policies]
    ELSE [g EXCEPT !.Groups[Head(path)] = WithPolicies(@, Tail(path), policies)]

PoliciesOf(cfg, path) == GroupAt(cfg.ChannelGroup, path).Policies

SetPolicies(cfg, path, policies) ==
    [cfg EXCEPT !.ChannelGroup = WithPolicies(@, path, policies)]

ChannelGroup == [nil |-> FALSE, ok |-> TRUE, path |-> <<>>]
NilGroup == [nil |-> TRUE, ok |-> FALSE, path |-> <<>>]
Crash == [nil |-> TRUE, ok |-> FALSE, path |-> <<"panic">>]

Crashed(cg) == cg = Crash

\* cg.Groups[key]: reading the field Groups of a nil group panics; a missing
\* key gives the nil group and ok = false
Lookup(cfg, cg, key) ==
    IF Crashed(cg) \/ cg.nil THEN Crash
    ELSE IF key \in DOMAIN GroupAt(cfg.ChannelGroup, cg.path).Groups
    THEN [nil |-> FALSE, ok |-> TRUE, path |-> Append(cg.path, key)]
    ELSE NilGroup

-----------------------------------------------------------------------------
(* getPolicies: the range over the map visits the entries in any order, so *)
(* with several undecodable entries any of their errors may be returned.   *)

getPolicy(policy) ==
    CASE policy.Policy.Type = Policy_IMPLICIT_META ->
            LET dec == Unmarshal(policy.Policy.Value, "ImplicitMetaPolicy")
                str == implicitMetaToString(dec.msg)
            IN IF dec.err # NoErr THEN [val |-> Nil, err |-> dec.err]
               ELSE IF str.err # NoErr THEN [val |-> Nil, err |-> str.err]
               ELSE [val |-> [Type |-> ImplicitMetaPolicyType, Rule |-> str.text],
                     err |-> NoErr]
      [] policy.Policy.Type = Policy_SIGNATURE ->
            LET dec == Unmarshal(policy.Policy.Value, "SignaturePolicyEnvelope")
                str == signatureMetaToString(dec.msg)
            IN IF dec.err # NoErr THEN [val |-> Nil, err |-> dec.err]
               ELSE IF str.err # NoErr THEN [val |-> Nil, err |-> str.err]
               ELSE [val |-> [Type |-> SignaturePolicyType, Rule |-> str.text],
                     err |-> NoErr]
      [] OTHER ->
            [val |-> Nil, err |-> "unknown policy type: " \o policy.Policy.Type]

getPolicies(policies) ==
    LET conv == [name \in DOMAIN policies |-> getPolicy(policies[name])]
        bad == {name \in DOMAIN policies : conv[name].err # NoErr}
    IN IF bad = {}
       THEN {[val |-> [name \in DOMAIN policies |-> conv[name].val], err |-> NoErr]}
       ELSE {[val |-> Nil, err |-> conv[name].err] : name \in bad}

-----------------------------------------------------------------------------
(* addPolicy, addPolicies, removePolicy: the result is the config after    *)
(* the call and the error returned                                         *)

\* store into a fresh map: the new entry replaces the whole policy map
store_Alone(cfg, cg, policyName, modPolicy, type, value) ==
    SetPolicies(cfg, cg.path,
        policyName :> [ModPolicy |-> modPolicy, Policy |-> [Type |-> type, Value |-> value]])

\* cg.Policies[policyName] = &cb.ConfigPolicy{...}
store(cfg, cg, policyName, modPolicy, type, value) ==
    SetPolicies(cfg, cg.path,
        Put(PoliciesOf(cfg, cg.path), policyName,
            [ModPolicy |-> modPolicy, Policy |-> [Type |-> type, Value |-> value]]))

addPolicy(cfg, cg, modPolicy, policyName, policy) ==
    CASE policy.Type = ImplicitMetaPolicyType ->
            LET imp == implicitMetaFromString(policy.Rule)
            IN IF imp.err # NoErr
               THEN [config |-> cfg,
                     err |-> "invalid implicit meta policy rule: '" \o policy.Rule
                                \o "': " \o imp.err]
               ELSE IF cg.nil THEN [config |-> cfg, err |-> Panic]
               ELSE [config |-> store(cfg, cg, policyName, modPolicy, Policy_IMPLICIT_META,
                                      Marshal("ImplicitMetaPolicy", imp.msg)),
                     err |-> NoErr]
      [] policy.Type = SignaturePolicyType ->
            LET sp == FromString(policy.Rule)
            IN IF sp.err # NoErr
               THEN [config |-> cfg,
                     err |-> "invalid signature policy rule: '" \o policy.Rule
                                \o "': " \o sp.err]
               ELSE IF cg.nil THEN [config |-> cfg, err |-> Panic]
               ELSE [config |-> store(cfg, cg, policyName, modPolicy, Policy_SIGNATURE,
                                      Marshal("SignaturePolicyEnvelope", sp.msg)),
                     err |-> NoErr]
      [] OTHER ->
            [config |-> cfg, err |-> "unknown policy type: " \o policy.Type]

Orders(S) == {o \in [1..Cardinality(S) -> S] : \A i, j \in DOMAIN o : o[i] = o[j] => i = j}

\* the loop of addPolicies over the names in the order the range visits them
RECURSIVE addInOrder(_, _, _, _, _)
addInOrder(cfg, cg, policyMap, modPolicy, order) ==
    IF order = <<>> THEN [config |-> cfg, err |-> NoErr]
    ELSE LET r == addPolicy(cfg, cg, modPolicy, Head(order), policyMap[Head(order)])
         IN IF r.err # NoErr THEN r
            ELSE addInOrder(r.config, cg, policyMap, modPolicy, Tail(order))

\* addPolicies without the test for the Writers policy
addPolicies_NoWriters(cfg, cg, policyMap, modPolicy) ==
    IF policyMap = Nil
    THEN {[config |-> cfg, err |-> "no policies defined"]}
    ELSE IF AdminsPolicyKey \notin DOMAIN policyMap
    THEN {[config |-> cfg, err |-> "no Admins policy defined"]}
    ELSE IF ReadersPolicyKey \notin DOMAIN policyMap
    THEN {[config |-> cfg, err |-> "no Readers policy defined"]}
    ELSE {addInOrder(cfg, cg, policyMap, modPolicy, order) : order \in Orders(DOMAIN policyMap)}

\* the set of results, one for each order of the range over policyMap
addPolicies(cfg, cg, policyMap, modPolicy) ==
    IF policyMap = Nil
    THEN {[config |-> cfg, err |-> "no policies defined"]}
    ELSE IF AdminsPolicyKey \notin DOMAIN policyMap
    THEN {[config |-> cfg, err |-> "no Admins policy defined"]}
    ELSE IF ReadersPolicyKey \notin DOMAIN policyMap
    THEN {[config |-> cfg, err |-> "no Readers policy defined"]}
    ELSE IF WritersPolicyKey \notin DOMAIN policyMap
    THEN {[config |-> cfg, err |-> "no Writers policy defined"]}
    ELSE {addInOrder(cfg, cg, policyMap, modPolicy, order) : order \in Orders(DOMAIN policyMap)}

\* removePolicy with the name looked up in the live map instead of the view
removePolicy_Live(cfg, configGroup, policyName, policies) ==
    IF configGroup.nil THEN [config |-> cfg, err |-> Panic]
    ELSE IF policyName \notin DOMAIN PoliciesOf(cfg, configGroup.path)
    THEN [config |-> cfg, err |-> "could not find policy '" \o policyName \o "'"]
    ELSE [config |-> SetPolicies(cfg, configGroup.path,
                         Delete(PoliciesOf(cfg, configGroup.path), policyName)),
          err |-> NoErr]

removePolicy(cfg, configGroup, policyName, policies) ==
    IF policyName \notin DOMAIN policies
    THEN [config |-> cfg, err |-> "could not find policy '" \o policyName \o "'"]
    ELSE IF configGroup.nil THEN [config |-> cfg, err |-> Panic]
    ELSE [config |-> SetPolicies(cfg, configGroup.path,
                         Delete(PoliciesOf(cfg, configGroup.path), policyName)),
          err |-> NoErr]

-----------------------------------------------------------------------------
(* The exported functions: each is the set of its possible results         *)
(* [config, err, val]                                                       *)

Failed(cfg, err) == {[config |-> cfg, err |-> err, val |-> Nil]}

Extract(cfg, cg) ==
    {[config |-> cfg, err |-> r.err, val |-> r.val] : r \in getPolicies(PoliciesOf(cfg, cg.path))}

Consortiums(cfg) == Lookup(cfg, ChannelGroup, ConsortiumsGroupKey)
Orderer(cfg) == Lookup(cfg, ChannelGroup, OrdererGroupKey)
Application(cfg) == Lookup(cfg, ChannelGroup, ApplicationGroupKey)

GetPoliciesForConsortiums(cfg) ==
    LET consortiums == Consortiums(cfg)
    IN IF ~consortiums.ok THEN Failed(cfg, "consortiums missing from config")
       ELSE Extract(cfg, consortiums)

GetPoliciesForConsortium(cfg, consortiumName) ==
    LET consortium == Lookup(cfg, Consortiums(cfg), consortiumName)
    IN IF Crashed(consortium) THEN Failed(cfg, Panic)
       ELSE IF ~consortium.ok
       THEN Failed(cfg, "consortium " \o consortiumName \o " does not exist in channel config")
       ELSE Extract(cfg, consortium)

GetPoliciesForConsortiumOrg(cfg, consortiumName, orgName) ==
    LET org == Lookup(cfg, Lookup(cfg, Consortiums(cfg), consortiumName), orgName)
    IN IF Crashed(org) THEN Failed(cfg, Panic)
       ELSE IF ~org.ok
       THEN Failed(cfg, "consortium org " \o orgName \o " does not exist in channel config")
       ELSE Extract(cfg, org)

GetPoliciesForOrderer(cfg) ==
    LET orderer == Orderer(cfg)
    IN IF ~orderer.ok THEN Failed(cfg, "orderer missing from config")
       ELSE Extract(cfg, orderer)

GetPoliciesForOrdererOrg(cfg, orgName) ==
    LET org == Lookup(cfg, Orderer(cfg), orgName)
    IN IF Crashed(org) THEN Failed(cfg, Panic)
       ELSE IF ~org.ok
       THEN Failed(cfg, "orderer org " \o orgName \o " does not exist in channel config")
       ELSE Extract(cfg, org)

GetPoliciesForApplication(cfg) ==
    LET application == Application(cfg)
    IN IF ~application.ok THEN Failed(cfg, "application missing from config")
       ELSE Extract(cfg, application)

GetPoliciesForApplicationOrg(cfg, orgName) ==
    LET orgGroup == Lookup(cfg, Application(cfg), orgName)
    IN IF Crashed(orgGroup) THEN Failed(cfg, Panic)
       ELSE IF ~orgGroup.ok
       THEN Failed(cfg, "application org " \o orgName \o " does not exist in channel config")
       ELSE Extract(cfg, orgGroup)

\* the result of addPolicy, its error wrapped in prefix when there is one
Added(r, prefix) ==
    {[config |-> r.config,
      err |-> IF IsError(r.err) THEN prefix \o r.err ELSE r.err,
      val |-> Nil]}

\* the result of removePolicy on the view a getter returned, or the
\* getter's error
Removed(cfg, cg, policyName, got) ==
    {IF g.err # NoErr THEN g
     ELSE LET r == removePolicy(cfg, cg, policyName, g.val)
          IN [config |-> r.config, err |-> r.err, val |-> Nil] : g \in got}

AddApplicationPolicy(cfg, modPolicy, policyName, policy) ==
    Added(addPolicy(cfg, Application(cfg), modPolicy, policyName, policy),
          "failed to add policy '" \o policyName \o "': ")

RemoveApplicationPolicy(cfg, policyName) ==
    Removed(cfg, Application(cfg), policyName, GetPoliciesForApplication(cfg))

AddApplicationOrgPolicy(cfg, orgName, modPolicy, policyName, policy) ==
    LET org == Lookup(cfg, Application(cfg), orgName)
    IN IF Crashed(org) THEN Failed(cfg, Panic)
       ELSE Added(addPolicy(cfg, org, modPolicy, policyName, policy),
                  "failed to add policy '" \o policyName \o "': ")

RemoveApplicationOrgPolicy(cfg, orgName, policyName) ==
    Removed(cfg, Lookup(cfg, Application(cfg), orgName), policyName,
            GetPoliciesForApplicationOrg(cfg, orgName))

AddConsortiumOrgPolicy(cfg, consortiumName, orgName, policyName, policy) ==
    LET groupKey == ConsortiumsGroupKey
        consortiumGroup == Lookup(cfg, Lookup(cfg, ChannelGroup, groupKey), consortiumName)
        orgGroup == Lookup(cfg, consortiumGroup, orgName)
    IN IF Crashed(consortiumGroup) THEN Failed(cfg, Panic)
       ELSE IF ~consortiumGroup.ok
       THEN Failed(cfg, "consortium '" \o consortiumName \o "' does not exist in channel config")
       ELSE IF ~orgGroup.ok
       THEN Failed(cfg, ToLower(groupKey) \o " org '" \o orgName
                            \o "' does not exist in channel config")
       ELSE Added(addPolicy(cfg, orgGroup, AdminsPolicyKey, policyName, policy),
                  "failed to add policy '" \o policyName \o "' to consortium org '"
                      \o orgName \o "': ")

RemoveConsortiumOrgPolicy(cfg, consortiumName, orgName, policyName) ==
    LET groupKey == ConsortiumsGroupKey
        consortiumGroup == Lookup(cfg, Lookup(cfg, ChannelGroup, groupKey), consortiumName)
        orgGroup == Lookup(cfg, consortiumGroup, orgName)
    IN IF Crashed(consortiumGroup) THEN Failed(cfg, Panic)
       ELSE IF ~consortiumGroup.ok
       THEN Failed(cfg, "consortium '" \o consortiumName \o "' does not exist in channel config")
       ELSE IF ~orgGroup.ok
       THEN Failed(cfg, ToLower(groupKey) \o " org '" \o orgName
                            \o "' does not exist in channel config")
       ELSE {[config |-> SetPolicies(cfg, orgGroup.path,
                             Delete(PoliciesOf(cfg, orgGroup.path), policyName)),
              err |-> NoErr, val |-> Nil]}

AddOrdererPolicy(cfg, modPolicy, policyName, policy) ==
    Added(addPolicy(cfg, Orderer(cfg), modPolicy, policyName, policy),
          "failed to add policy '" \o policyName \o "': ")

\* RemoveOrdererPolicy without the test for BlockValidation
RemoveOrdererPolicy_NoGuard(cfg, policyName) ==
    Removed(cfg, Orderer(cfg), policyName, GetPoliciesForOrderer(cfg))

RemoveOrdererPolicy(cfg, policyName) ==
    IF policyName = BlockValidationPolicyKey
    THEN Failed(cfg, "BlockValidation policy must be defined")
    ELSE Removed(cfg, Orderer(cfg), policyName, GetPoliciesForOrderer(cfg))

AddOrdererOrgPolicy(cfg, orgName, modPolicy, policyName, policy) ==
    LET org == Lookup(cfg, Orderer(cfg), orgName)
    IN IF Crashed(org) THEN Failed(cfg, Panic)
       ELSE Added(addPolicy(cfg, org, modPolicy, policyName, policy), "")

RemoveOrdererOrgPolicy(cfg, orgName, policyName) ==
    Removed(cfg, Lookup(cfg, Orderer(cfg), orgName), policyName,
            GetPoliciesForOrdererOrg(cfg, orgName))

-----------------------------------------------------------------------------
(* Calls: the caller makes one call on the config; a panic ends the program *)

NoPolicy == [Type |-> "", Rule |-> ""]
NoArgs == [consortium |-> "", org |-> "", modPolicy |-> "", name |-> "",
           policy |-> NoPolicy, policyMap |-> Nil]
NoRet == [op |-> "none", target |-> <<>>, args |-> NoArgs, err |-> NoErr, val |-> Nil]
NoOut == [fn |-> "none", text |-> "", err |-> NoErr]
NoEnvelope == [Rule |-> NoType, Identities |-> <<>>]

Getters == {"GetPoliciesForConsortiums", "GetPoliciesForConsortium",
            "GetPoliciesForConsortiumOrg", "GetPoliciesForOrderer",
            "GetPoliciesForOrdererOrg", "GetPoliciesForApplication",
            "GetPoliciesForApplicationOrg"}

Call(op, target, args, results) ==
    /\ budget > 0
    /\ ret.err # Panic
    /\ \E r \in results :
          /\ config' = r.config
          /\ ret' = [op |-> op, target |-> target, args |-> args, err |-> r.err, val |-> r.val]
          /\ view' = IF op \in Getters /\ r.err = NoErr THEN r.val ELSE view
    /\ budget' = budget - 1
    /\ UNCHANGED <<fin, fout>>

CallGetPoliciesForConsortiums ==
    Call("GetPoliciesForConsortiums", <<ConsortiumsGroupKey>>, NoArgs,
         GetPoliciesForConsortiums(config))

CallGetPoliciesForConsortium(c) ==
    Call("GetPoliciesForConsortium", <<ConsortiumsGroupKey, c>>,
         [NoArgs EXCEPT !.consortium = c],
         GetPoliciesForConsortium(config, c))

CallGetPoliciesForConsortiumOrg(c, o) ==
    Call("GetPoliciesForConsortiumOrg", <<ConsortiumsGroupKey, c, o>>,
         [NoArgs EXCEPT !.consortium = c, !.org = o],
         GetPoliciesForConsortiumOrg(config, c, o))

CallGetPoliciesForOrderer ==
    Call("GetPoliciesForOrderer", <<OrdererGroupKey>>, NoArgs,
         GetPoliciesForOrderer(config))

CallGetPoliciesForOrdererOrg(o) ==
    Call("GetPoliciesForOrdererOrg", <<OrdererGroupKey, o>>,
         [NoArgs EXCEPT !.org = o],
         GetPoliciesForOrdererOrg(config, o))

CallGetPoliciesForApplication ==
    Call("GetPoliciesForApplication", <<ApplicationGroupKey>>, NoArgs,
         GetPoliciesForApplication(config))

CallGetPoliciesForApplicationOrg(o) ==
    Call("GetPoliciesForApplicationOrg", <<ApplicationGroupKey, o>>,
         [NoArgs EXCEPT !.org = o],
         GetPoliciesForApplicationOrg(config, o))

CallAddApplicationPolicy(m, n, p) ==
    Call("AddApplicationPolicy", <<ApplicationGroupKey>>,
         [NoArgs EXCEPT !.modPolicy = m, !.name = n, !.policy = p],
         AddApplicationPolicy(config, m, n, p))

CallRemoveApplicationPolicy(n) ==
    Call("RemoveApplicationPolicy", <<ApplicationGroupKey>>,
         [NoArgs EXCEPT !.name = n],
         RemoveApplicationPolicy(config, n))

CallAddApplicationOrgPolicy(o, m, n, p) ==
    Call("AddApplicationOrgPolicy", <<ApplicationGroupKey, o>>,
         [NoArgs EXCEPT !.org = o, !.modPolicy = m, !.name = n, !.policy = p],
         AddApplicationOrgPolicy(config, o, m, n, p))

CallRemoveApplicationOrgPolicy(o, n) ==
    Call("RemoveApplicationOrgPolicy", <<ApplicationGroupKey, o>>,
         [NoArgs EXCEPT !.org = o, !.name = n],
         RemoveApplicationOrgPolicy(config, o, n))

CallAddConsortiumOrgPolicy(c, o, n, p) ==
    Call("AddConsortiumOrgPolicy", <<ConsortiumsGroupKey, c, o>>,
         [NoArgs EXCEPT !.consortium = c, !.org = o, !.modPolicy = AdminsPolicyKey,
                        !.name = n, !.policy = p],
         AddConsortiumOrgPolicy(config, c, o, n, p))

CallRemoveConsortiumOrgPolicy(c, o, n) ==
    Call("RemoveConsortiumOrgPolicy", <<ConsortiumsGroupKey, c, o>>,
         [NoArgs EXCEPT !.consortium = c, !.org = o, !.name = n],
         RemoveConsortiumOrgPolicy(config, c, o, n))

CallAddOrdererPolicy(m, n, p) ==
    Call("AddOrdererPolicy", <<OrdererGroupKey>>,
         [NoArgs EXCEPT !.modPolicy = m, !.name = n, !.policy = p],
         AddOrdererPolicy(config, m, n, p))

CallRemoveOrdererPolicy(n) ==
    Call("RemoveOrdererPolicy", <<OrdererGroupKey>>,
         [NoArgs EXCEPT !.name = n],
         RemoveOrdererPolicy(config, n))

CallAddOrdererOrgPolicy(o, m, n, p) ==
    Call("AddOrdererOrgPolicy", <<OrdererGroupKey, o>>,
         [NoArgs EXCEPT !.org = o, !.modPolicy = m, !.name = n, !.policy = p],
         AddOrdererOrgPolicy(config, o, m, n, p))

CallRemoveOrdererOrgPolicy(o, n) ==
    Call("RemoveOrdererOrgPolicy", <<OrdererGroupKey, o>>,
         [NoArgs EXCEPT !.org = o, !.name = n],
         RemoveOrdererOrgPolicy(config, o, n))

\* addPolicies on the application group, as a caller building that group does
CallAddPolicies(policyMap, m) ==
    Call("addPolicies", <<ApplicationGroupKey>>,
         [NoArgs EXCEPT !.modPolicy = m, !.policyMap = policyMap],
         {[config |-> r.config, err |-> r.err, val |-> Nil] :
              r \in addPolicies(config, Application(config), policyMap, m)})

\* removePolicy on the application group with the view an earlier getter
\* returned
CallRemovePolicy(n) ==
    /\ view # Nil
    /\ Call("removePolicy", <<ApplicationGroupKey>>,
            [NoArgs EXCEPT !.name = n],
            LET r == removePolicy(config, Application(config), n, view)
            IN {[config |-> r.config, err |-> r.err, val |-> Nil]})

-----------------------------------------------------------------------------
(* Inputs of the formatter *)

SeqsUpTo(S, n) == UNION {[1..k -> S] : k \in 0..n}

Leaves == {SignedBy(i) : i \in 0..MaxIdx} \cup {NoType}

\* nested nodes over the leaves SignedBy(0), SignedBy(1), ... in that order
InnerNodes ==
    {NOutOf(n, [i \in 1..MaxInner |-> SignedBy(i - 1)]) : n \in 1..MaxInner}

TopNodes ==
    {NOutOf(n, rules) : n \in 0..MaxN, rules \in SeqsUpTo(Leaves \cup InnerNodes, MaxRules)}

IdentityLists ==
    { <<RolePrincipal("Org1MSP", "ADMIN"), RolePrincipal("Org2MSP", "MEMBER")>>,
      <<RolePrincipal("Org1MSP", "PEER"), OtherPrincipal("ORGANIZATION_UNIT")>>,
      <<RolePrincipal("Org2MSP", "ORDERER")>> }

Envelopes == [Rule : TopNodes, Identities : IdentityLists]

-----------------------------------------------------------------------------
(* Config trees *)

Group(groups, policies) == [Groups |-> groups, Policies |-> policies]

ImplicitMetaEntry(rule, subPolicy) ==
    [ModPolicy |-> AdminsPolicyKey,
     Policy |-> [Type |-> Policy_IMPLICIT_META,
                 Value |-> Marshal("ImplicitMetaPolicy",
                                   [Rule |-> rule, SubPolicy |-> subPolicy])]]

StandardPolicies ==
    (AdminsPolicyKey :> ImplicitMetaEntry("MAJORITY", AdminsPolicyKey))
    @@ (ReadersPolicyKey :> ImplicitMetaEntry("ANY", ReadersPolicyKey))
    @@ (WritersPolicyKey :> ImplicitMetaEntry("ANY", WritersPolicyKey))

BlockValidationPolicy ==
    BlockValidationPolicyKey :> ImplicitMetaEntry("ANY", WritersPolicyKey)

ConsortiumName == "SampleConsortium"
OrgName == "Org1"

OrgGroup == Group(EmptyMap, StandardPolicies)

\* a chain of groups below the channel group, cut after depth groups
ConsortiumsTree(depth) ==
    IF depth = 0 THEN EmptyMap
    ELSE ConsortiumsGroupKey :>
            Group(IF depth = 1 THEN EmptyMap
                  ELSE ConsortiumName :>
                          Group(IF depth = 2 THEN EmptyMap ELSE OrgName :> OrgGroup,
                                StandardPolicies),
                  StandardPolicies)

OrdererTree(depth, blockValidation) ==
    IF depth = 0 THEN EmptyMap
    ELSE OrdererGroupKey :>
            Group(IF depth = 1 THEN EmptyMap ELSE OrgName :> OrgGroup,
                  IF blockValidation THEN StandardPolicies @@ BlockValidationPolicy
                  ELSE StandardPolicies)

ApplicationTree(depth, policies) ==
    IF depth = 0 THEN EmptyMap
    ELSE ApplicationGroupKey :>
            Group(IF depth = 1 THEN EmptyMap ELSE OrgName :> OrgGroup, policies)

Config(c, o, bv, a, policies) ==
    [ChannelGroup |->
        Group(ConsortiumsTree(c) @@ OrdererTree(o, bv) @@ ApplicationTree(a, policies),
              StandardPolicies)]

FullConfig == Config(3, 2, TRUE, 2, StandardPolicies)

RECURSIVE Exists(_, _)
Exists(g, path) ==
    path = <<>> \/ (Head(path) \in DOMAIN g.Groups /\ Exists(g.Groups[Head(path)], Tail(path)))

-----------------------------------------------------------------------------
(* Inputs of the calls *)

MaxCalls == 1        \* calls made on the config tree
MaxViewCalls == 3    \* calls made on the application group
MaxBatchCalls == 1   \* calls of addPolicies
MaxOrdererCalls == 3 \* calls made on the orderer group
MaxPrincipals == 3   \* principals of an installed signature rule

AnyReaders == [Type |-> ImplicitMetaPolicyType, Rule |-> "ANY Readers"]
OrAdmins == [Type |-> SignaturePolicyType, Rule |-> "OR('Org1MSP.admin', 'Org2MSP.admin')"]
BadRule == [Type |-> ImplicitMetaPolicyType, Rule |-> "ANY"]
BadSignature == [Type |-> SignaturePolicyType, Rule |-> "OR('Org1MSP.admin'"]
BadType == [Type |-> "Unknown", Rule |-> "ANY Readers"]

Policies == {AnyReaders, OrAdmins, BadRule, BadSignature, BadType}
PolicyNames == {AdminsPolicyKey, BlockValidationPolicyKey}
ModPolicies == {AdminsPolicyKey, "/Channel/Admins"}

-----------------------------------------------------------------------------
(* The formatter on every envelope *)

InitFmt ==
    /\ config = FullConfig
    /\ ret = NoRet
    /\ view = Nil
    /\ budget = 0
    /\ fin \in Envelopes
    /\ fout = NoOut

Roles(sig) == [i \in 1..Len(sig.Identities) |-> mspPrincipalToString(sig.Identities[i]).text]

CallSignaturePolicyToString ==
    /\ fout.fn = "none"
    /\ LET r == signaturePolicyToString(fin.Rule, Roles(fin))
       IN fout' = [fn |-> "signaturePolicyToString", text |-> r.text, err |-> r.err]
    /\ UNCHANGED <<config, ret, view, fin, budget>>

CallSignatureMetaToString ==
    /\ fout.fn = "none"
    /\ LET r == signatureMetaToString(fin)
       IN fout' = [fn |-> "signatureMetaToString", text |-> r.text, err |-> r.err]
    /\ UNCHANGED <<config, ret, view, fin, budget>>

NextFmt == CallSignaturePolicyToString \/ CallSignatureMetaToString

SpecFmt == InitFmt /\ [][NextFmt]_vars

-----------------------------------------------------------------------------
(* The exported functions on config trees with any of the groups missing *)

Init ==
    /\ \E c \in 0..3, o \in 0..2, a \in 0..2, bv \in BOOLEAN :
          config = Config(c, o, bv, a, StandardPolicies)
    /\ ret = NoRet
    /\ view = Nil
    /\ budget = MaxCalls
    /\ fin = NoEnvelope
    /\ fout = NoOut

Next ==
    \/ CallGetPoliciesForConsortiums
    \/ CallGetPoliciesForConsortium(ConsortiumName)
    \/ CallGetPoliciesForConsortiumOrg(ConsortiumName, OrgName)
    \/ CallGetPoliciesForOrderer
    \/ CallGetPoliciesForOrdererOrg(OrgName)
    \/ CallGetPoliciesForApplication
    \/ CallGetPoliciesForApplicationOrg(OrgName)
    \/ \E m \in ModPolicies, n \in PolicyNames, p \in Policies :
          CallAddApplicationPolicy(m, n, p)
    \/ \E n \in PolicyNames : CallRemoveApplicationPolicy(n)
    \/ \E m \in ModPolicies, n \in PolicyNames, p \in Policies :
          CallAddApplicationOrgPolicy(OrgName, m, n, p)
    \/ \E n \in PolicyNames : CallRemoveApplicationOrgPolicy(OrgName, n)
    \/ \E n \in PolicyNames, p \in Policies :
          CallAddConsortiumOrgPolicy(ConsortiumName, OrgName, n, p)
    \/ \E n \in PolicyNames : CallRemoveConsortiumOrgPolicy(ConsortiumName, OrgName, n)
    \/ \E m \in ModPolicies, n \in PolicyNames, p \in Policies :
          CallAddOrdererPolicy(m, n, p)
    \/ \E n \in PolicyNames : CallRemoveOrdererPolicy(n)
    \/ \E m \in ModPolicies, n \in PolicyNames, p \in Policies :
          CallAddOrdererOrgPolicy(OrgName, m, n, p)
    \/ \E n \in PolicyNames : CallRemoveOrdererOrgPolicy(OrgName, n)

Spec == Init /\ [][Next]_vars

-----------------------------------------------------------------------------
(* Add, get and remove on the orderer group *)

InitOrderer ==
    /\ \E o \in 0..2, bv \in BOOLEAN : config = Config(3, o, bv, 2, StandardPolicies)
    /\ ret = NoRet
    /\ view = Nil
    /\ budget = MaxOrdererCalls
    /\ fin = NoEnvelope
    /\ fout = NoOut

NextOrderer ==
    \/ CallGetPoliciesForOrderer
    \/ \E n \in PolicyNames, p \in {AnyReaders, BadRule} :
          CallAddOrdererPolicy(AdminsPolicyKey, n, p)
    \/ \E n \in PolicyNames : CallRemoveOrdererPolicy(n)

SpecOrderer == InitOrderer /\ [][NextOrderer]_vars

-----------------------------------------------------------------------------
(* Add, get and remove on the application group, and removePolicy with a   *)
(* view extracted earlier                                                   *)

EndorsementPolicyKey == "Endorsement"
ViewNames == {AdminsPolicyKey, EndorsementPolicyKey}

InitView ==
    /\ config = FullConfig
    /\ ret = NoRet
    /\ view = Nil
    /\ budget = MaxViewCalls
    /\ fin = NoEnvelope
    /\ fout = NoOut

NextView ==
    \/ CallGetPoliciesForApplication
    \/ \E n \in ViewNames, p \in {AnyReaders, BadRule} :
          CallAddApplicationPolicy(AdminsPolicyKey, n, p)
    \/ \E n \in ViewNames : CallRemoveApplicationPolicy(n)
    \/ \E n \in ViewNames : CallRemovePolicy(n)

SpecView == InitView /\ [][NextView]_vars

-----------------------------------------------------------------------------
(* addPolicies on the application group *)

BatchNames == {AdminsPolicyKey, ReadersPolicyKey, WritersPolicyKey}
BatchModPolicy == "/Channel/Application/Admins"

BatchMaps ==
    {Nil} \cup UNION {[names -> {AnyReaders, BadRule, BadType}] : names \in SUBSET BatchNames}

InitBatch ==
    /\ \E policies \in {EmptyMap, StandardPolicies} :
          config = Config(3, 2, TRUE, 2, policies)
    /\ ret = NoRet
    /\ view = Nil
    /\ budget = MaxBatchCalls
    /\ fin = NoEnvelope
    /\ fout = NoOut

NextBatch ==
    \/ \E policyMap \in BatchMaps : CallAddPolicies(policyMap, BatchModPolicy)
    \/ CallGetPoliciesForApplication

SpecBatch == InitBatch /\ [][NextBatch]_vars

-----------------------------------------------------------------------------
(* Installing a signature rule on the application group and extracting it *)

PrincipalTexts == {"'Org1MSP.admin'", "'Org2MSP.member'"}

PrincipalLists == UNION {[1..k -> PrincipalTexts] : k \in 1..MaxPrincipals}

RuleText(gate, n, principals) ==
    gate \o "(" \o (IF gate = "OUTOF" THEN Itoa(n) \o ", " ELSE "")
         \o Join(principals, ", ") \o ")"

SignatureRules ==
    {RuleText(gate, 0, ps) : gate \in {"AND", "OR"}, ps \in PrincipalLists}
    \cup UNION {{RuleText("OUTOF", n, ps) : n \in 1..Len(ps)} : ps \in PrincipalLists}

\* AND or OR over two or more principals, OUTOF with 1 < N < number of principals
RoundTripRules ==
    {RuleText(gate, 0, ps) : gate \in {"AND", "OR"}, ps \in {l \in PrincipalLists : Len(l) >= 2}}
    \cup UNION {{RuleText("OUTOF", n, ps) : n \in 2..(Len(ps) - 1)} : ps \in PrincipalLists}

InitRoundTrip ==
    /\ config = FullConfig
    /\ ret = NoRet
    /\ view = Nil
    /\ budget = 2
    /\ fin = NoEnvelope
    /\ fout = NoOut

NextRoundTrip ==
    \/ \E rule \in SignatureRules :
          CallAddApplicationPolicy(AdminsPolicyKey, EndorsementPolicyKey,
                                   [Type |-> SignaturePolicyType, Rule |-> rule])
    \/ CallGetPoliciesForApplication

SpecRoundTrip == InitRoundTrip /\ [][NextRoundTrip]_vars

-----------------------------------------------------------------------------
(* Claims about the formatter, checked under SpecFmt *)

Formatted == fout.fn = "signaturePolicyToString" /\ fout.err = NoErr

ChildTexts ==
    [i \in 1..Len(fin.Rule.Rules) |->
        signaturePolicyToString(fin.Rule.Rules[i], Roles(fin)).text]

\* C1 (as claimed): every NOutOf node with N = 1 is rendered as "OR(...)",
\* whatever the number of its children, a single child included.
C1_OrWhenNIsOne ==
    (Formatted /\ fin.Rule.N = 1) => HasPrefix(fout.text, "OR(")

\* C2: an NOutOf node with 1 < N <= len(children) is rendered as "AND(" when
\* N = len(children) and else as "OUTOF(" with the decimal N as its first
\* argument; the other arguments are the renderings of the children in their
\* stored order, joined by ", ".
C2_AndOutOf ==
    (Formatted /\ fin.Rule.N > 1 /\ fin.Rule.N <= Len(fin.Rule.Rules)) =>
        IF fin.Rule.N = Len(fin.Rule.Rules)
        THEN fout.text = "AND(" \o Join(ChildTexts, ", ") \o ")"
        ELSE fout.text = "OUTOF(" \o Itoa(fin.Rule.N) \o ", " \o Join(ChildTexts, ", ") \o ")"

C2_Witness ==
    /\ Formatted
    /\ fin.Rule.N = 2
    /\ Len(fin.Rule.Rules) = 3
    /\ fin.Rule.Rules[1].Type = "NOutOf"
    /\ fin.Rule.Rules[2] = SignedBy(1)
    /\ HasPrefix(fout.text, "OUTOF(2, ")

-----------------------------------------------------------------------------
(* Claims about the calls *)

Called(op) == ret'.op = op /\ budget' = budget - 1

TargetExists(cfg) == Exists(cfg.ChannelGroup, ret'.target)

\* C3: a successful AddApplicationPolicy of a signature rule AND(...) or
\* OR(...) over two or more role principals, or OUTOF(N, ...) with N between
\* 1 and the number of principals, followed by GetPoliciesForApplication,
\* gives under the name a Policy of the same type with the same rule text.
C3_RoundTrip ==
    [][(/\ ret.op = "AddApplicationPolicy"
        /\ ret.err = NoErr
        /\ ret.args.policy.Rule \in RoundTripRules
        /\ Called("GetPoliciesForApplication"))
       => (/\ ret'.err = NoErr
           /\ ret.args.name \in DOMAIN ret'.val
           /\ ret'.val[ret.args.name] = ret.args.policy)]_vars

C3_Witness ==
    /\ ret.op = "GetPoliciesForApplication"
    /\ ret.err = NoErr
    /\ EndorsementPolicyKey \in DOMAIN ret.val
    /\ ret.val[EndorsementPolicyKey] =
          [Type |-> SignaturePolicyType,
           Rule |-> "OUTOF(2, 'Org1MSP.admin', 'Org2MSP.member', 'Org1MSP.admin')"]

RequiredMissing(policyMap) ==
    policyMap = Nil \/ \E name \in BatchNames : name \notin DOMAIN policyMap

\* C4: addPolicies with a nil policy map, or one without Admins, Readers or
\* Writers, returns an error and leaves the policy map of the group as it was.
C4_RequiredPolicies ==
    [][(Called("addPolicies") /\ RequiredMissing(ret'.args.policyMap))
       => (IsError(ret'.err) /\ config' = config)]_vars

C4_Witness ==
    /\ ret.op = "addPolicies"
    /\ ret.args.policyMap # Nil
    /\ DOMAIN ret.args.policyMap = {AdminsPolicyKey, ReadersPolicyKey}
    /\ ret.err = "no Writers policy defined"
    /\ PoliciesOf(config, <<ApplicationGroupKey>>) = EmptyMap

\* C5 (as claimed): whenever addPolicies returns an error, the policy map of
\* the group is unchanged: no entry of the batch has been installed.
C5_AllOrNothing ==
    [][(Called("addPolicies") /\ ret'.err # NoErr) => config' = config]_vars

\* C6: RemoveOrdererPolicy of BlockValidation returns an error and leaves the
\* config unchanged, and no call of RemoveOrdererPolicy removes a
\* BlockValidation entry of the orderer group.
C6_BlockValidationStays ==
    [][Called("RemoveOrdererPolicy")
       => (/\ ret'.args.name = BlockValidationPolicyKey
                => (IsError(ret'.err) /\ config' = config)
           /\ (/\ Exists(config.ChannelGroup, <<OrdererGroupKey>>)
               /\ BlockValidationPolicyKey \in DOMAIN PoliciesOf(config, <<OrdererGroupKey>>))
                => BlockValidationPolicyKey \in DOMAIN PoliciesOf(config', <<OrdererGroupKey>>))]_vars

C6_Witness ==
    /\ ret.op = "RemoveOrdererPolicy"
    /\ ret.args.name = BlockValidationPolicyKey
    /\ ret.err = "BlockValidation policy must be defined"
    /\ Exists(config.ChannelGroup, <<OrdererGroupKey>>)
    /\ BlockValidationPolicyKey \in DOMAIN PoliciesOf(config, <<OrdererGroupKey>>)
    /\ budget = 0

\* C7: removePolicy with a name that is not a key of the view it is given
\* returns a "could not find policy" error and does not change the policy
\* map, also when the live map has the name.
C7_NotInView ==
    [][(Called("removePolicy") /\ ret'.args.name \notin DOMAIN view)
       => (HasPrefix(ret'.err, "could not find policy") /\ config' = config)]_vars

C7_Witness ==
    /\ ret.op = "removePolicy"
    /\ ret.args.name \notin DOMAIN view
    /\ ret.args.name \in DOMAIN PoliciesOf(config, <<ApplicationGroupKey>>)
    /\ HasPrefix(ret.err, "could not find policy")

Adders == {"AddApplicationPolicy", "AddApplicationOrgPolicy", "AddConsortiumOrgPolicy",
           "AddOrdererPolicy", "AddOrdererOrgPolicy"}

KindTag(type) ==
    IF type = ImplicitMetaPolicyType THEN Policy_IMPLICIT_META ELSE Policy_SIGNATURE

\* C8: a successful add leaves under the name an entry with the kind tag of
\* the policy and the given modification policy; the other entries of the
\* group and all other groups are unchanged.  A failing add changes nothing.
C8_AddFrame ==
    [][(\E op \in Adders : Called(op))
       => IF ret'.err = NoErr
          THEN LET old == PoliciesOf(config, ret'.target)
                   new == PoliciesOf(config', ret'.target)
                   name == ret'.args.name
               IN /\ DOMAIN new = DOMAIN old \cup {name}
                  /\ new[name].ModPolicy = ret'.args.modPolicy
                  /\ new[name].Policy.Type = KindTag(ret'.args.policy.Type)
                  /\ \A other \in DOMAIN old \ {name} : new[other] = old[other]
                  /\ SetPolicies(config', ret'.target, old) = config
          ELSE config' = config]_vars

C8_Witness ==
    /\ ret.op = "AddOrdererOrgPolicy"
    /\ ret.err = NoErr
    /\ ret.args.name = AdminsPolicyKey
    /\ ret.args.modPolicy = "/Channel/Admins"
    /\ ret.args.policy = OrAdmins
    /\ PoliciesOf(config, ret.target)[AdminsPolicyKey].ModPolicy = "/Channel/Admins"
    /\ PoliciesOf(config, ret.target)[AdminsPolicyKey].Policy.Type = Policy_SIGNATURE

\* C9 (as claimed): a getter or an add/remove call whose path to the target
\* group has a missing group returns an error, never crashes, and leaves the
\* tree unchanged.
C9_MissingGroupIsAnError ==
    [][(budget' = budget - 1 /\ ~TargetExists(config))
       => (IsError(ret'.err) /\ config' = config)]_vars

\* C10 (as claimed): RemoveOrdererOrgPolicy for an existing orderer
\* organization with a name that is not in its policy map returns no error
\* and leaves the policy map unchanged.
C10_RemoveAbsentIsNoError ==
    [][(/\ Called("RemoveOrdererOrgPolicy")
        /\ TargetExists(config)
        /\ ret'.args.name \notin DOMAIN PoliciesOf(config, ret'.target))
       => (ret'.err = NoErr /\ config' = config)]_vars

====
